---- MODULE Spec2Model ----
(***************************************************************************)
(* A model of isc-slayer: the batch orchestrators of src/src/ui.py and     *)
(* src/src/requests_hybrid.py, the record assemblers they drive            *)
(* (ISCScraper.search_policy on the scraper's single browser page,         *)
(* ISCRequestsHybrid.process_policy on a requests session) and the         *)
(* detail-page field extractor.                                            *)
(***************************************************************************)
EXTENDS Integers, Sequences, FiniteSets, TLC

\* ---------------------------------------------------------------- bounds
\* The longest identifier list.
MaxIds == 2
\* The most pieces a detail document is made of.
MaxPieces == 3
\* The most rows a summary listing has.
MaxRows == 3
\* The most calls of close() on one scraper.
MaxCloseCalls == 2

\* ------------------------------------------------------ program constants
\* scraper.py: max_retries = 2, the retry loop runs range(max_retries + 1)
max_retries == 2
\* scraper.py: page.goto(..., timeout=30000), set_default_timeout(30000)
PageTimeoutMs == 30000

Ids == 1..MaxIds

\* The concurrency limits and the batch sizes the runs are started with: a
\* limit below, at and (for shorter lists) above the number of identifiers,
\* batches of one identifier and of several.
Limits == {1, 2}
BatchSizes == {1, 2}

VARIABLES
    caller,           \* the entry point that drives the run
    policy_numbers,   \* the input identifiers, in input order
    limit,            \* concurrency_limit (ui) / max_workers (hybrid)
    batch_size,       \* batch_size of process_data / process_data_concurrent
    use_concurrent,   \* run_scraping_process's use_concurrent flag
    remote,           \* the portal, per identifier: "row", "norow" or "silent"
    sink,             \* the progress sink: "none", "sound" or "raising"
    mpc,              \* position of the driver (caller + orchestrator)
    logged_in,        \* the session is authenticated
    batch_i,          \* i of "for i in range(0, total_rows, batch_size)"; enumerate's i (hybrid)
    semaphore,        \* value of asyncio.Semaphore(concurrency_limit)
    tpc,              \* per identifier: position of its Assembler call
    attempt,          \* per identifier: attempt of search_policy's retry loop
    row,              \* per identifier: the row handle is attached to the current DOM
    ret,              \* per identifier: what the Assembler call returned
    page,             \* scraper.page, the one page every search_policy call drives
    results,          \* results
    failed_policies,  \* failed_policies (ui)
    completed_count,  \* completed_count (ui)
    progress,         \* the progress updates issued so far
    successful,       \* successful (hybrid)
    failed,           \* failed (hybrid)
    nsearch,          \* per identifier: summary fetches issued
    ndetail,          \* per identifier: detail fetches issued
    calls,            \* per identifier: Assembler calls started
    events,           \* what the calls met: <<"notfound", k>>, <<"detail_failed", k>>,
                      \* <<"fault", k>> (a fetch or a read of the page failed)
    done_order,       \* the identifiers in the order their Assembler calls completed
    html,             \* the detail markup handed to the extractor, as tokens
    current_year,     \* datetime.now().year at the time of the extraction
    details,          \* the mapping the extractor returned
    epc,              \* position of the extractor call
    listing,          \* the rows of the summary listing handed to its parser
    search_data,      \* the mapping parsed from the summary row
    record,           \* the record assembled from search_data and details
    scraper,          \* the ISCScraper's fields playwright, browser and page
    session           \* the call that sets a session up and tears it down: its
                      \* position, and the browser resources that are open

\* The variables of a batch run, and those of an extractor call.
bvars == <<caller, policy_numbers, limit, batch_size, use_concurrent, remote, sink, mpc,
           logged_in, batch_i, semaphore, tpc, attempt, row, ret, page, results,
           failed_policies, completed_count, progress, successful, failed,
           nsearch, ndetail, calls, events, done_order>>

evars == <<html, current_year, details, epc, listing, search_data, record>>

\* The variables of a session's set-up and tear-down.
svars == <<scraper, session>>

vars == <<bvars, evars, svars>>

params == <<caller, policy_numbers, limit, batch_size, use_concurrent, remote, sink>>

\* ------------------------------------------------------------- helpers
Min(a, b) == IF a < b THEN a ELSE b

total_rows == Len(policy_numbers)

\* The value None of an Assembler call, and the record it returns otherwise.
\* detail_kind/detail_of name the page the detail fields were read from.
NoRec == [ok |-> FALSE, policy_number |-> 0, app_id |-> 0,
          detail_kind |-> "none", detail_of |-> 0]

Rec(pn, app, kind, of) == [ok |-> TRUE, policy_number |-> pn, app_id |-> app,
                           detail_kind |-> kind, detail_of |-> of]

BlankPage == [kind |-> "blank", of |-> 0, field |-> 0]

\* A mapping without keys.
NoMapping == [k \in {} |-> <<>>]

\* The result of a task that ended in an exception (ui.py 135,
\* return_exceptions=True).
TaskException == [ok |-> FALSE, policy_number |-> 0, app_id |-> 0,
                  detail_kind |-> "exception", detail_of |-> 0]

\* What a sink call does: it returns (FALSE), or it raises (TRUE), which
\* only a raising sink can.
SinkOutcomes == IF sink = "raising" THEN {FALSE, TRUE} ELSE {FALSE}

\* ui.py 113-116 and requests_hybrid.py 280, 286: the update issued for a
\* completion: completed, total, success and failure count.
ProgressUpdate(c, s, f) == <<"done", c, total_rows, s, f>>

\* ui.py 47-49 and 125: the message that opens the batch of rows i ..
\* batch_end - 1: the first and last policy of the batch and the total.
BatchMessage(i) == <<"batch", i + 1, Min(i + batch_size, total_rows), total_rows>>

\* ui.py 74-75 and 147-148: the message that ends the run: the total, the
\* records found and the policies failed.
FinalMessage(found, notfound) == <<"final", total_rows, found, notfound>>

\* scraper.py 9-14, __init__: browser and page are None, the attribute
\* playwright does not exist yet.
NewScraper == [playwright |-> "unset", browser |-> "none", page |-> "none"]

\* No session is set up or torn down.
IdleSession ==
    /\ scraper = NewScraper
    /\ session = [entry |-> "none", pc |-> "idle", open |-> {}, tried |-> {},
                  exc |-> FALSE, closes |-> 0, close_raised |-> {}, after |-> "idle",
                  installed |-> FALSE]

\* The mapping {} of the extractor: no key is set.
NoDetails == [has_cancellation |-> FALSE, cancellation_date |-> <<>>,
              has_term |-> FALSE, effective_date |-> <<>>,
              expiration_date |-> <<>>, method |-> 0]

UiCallers == {"run_scraping_process", "run_performance_test"}
HybridCallers == {"hybrid_main", "quick_test_hybrid"}

\* ui.py run_scraping_process: "if use_concurrent and concurrency_limit > 1"
\* picks process_data_concurrent, else process_data; run_performance_test
\* (second half) calls process_data_concurrent directly.
Mode ==
    IF caller = "run_performance_test" THEN "concurrent"
    ELSE IF caller = "run_scraping_process"
         THEN (IF use_concurrent /\ limit > 1 THEN "concurrent" ELSE "sequential")
         ELSE "hybrid"

\* Rows i .. batch_end-1 of the dataframe (0-based) are identifiers i+1 .. batch_end.
BatchOf(i) == {k \in 1..total_rows : i < k /\ k <= Min(i + batch_size, total_rows)}

\* Positions inside ISCScraper.search_policy.
UiInCall == {"goto_search", "fill", "click", "query_row", "row_data",
             "goto_detail", "check_url", "content"}
\* Positions inside ISCRequestsHybrid.process_policy.
HybridInCall == {"h_summary", "h_detail"}

InFlight == {k \in Ids : tpc[k] \in UiInCall \cup HybridInCall}


\* ------------------------------------------------------------------ Init
\* quick_test_hybrid.py processes one hard-coded policy; the other callers
\* take any identifier list (the caller removed duplicates and blanks).
\* A portal that never answers is told apart from one that fails only where
\* the fetch has no timeout (requests_hybrid.py); on the scraper's page every
\* wait ends after PageTimeoutMs, which is the failure branch of each step.
\* The progress sink is the pair of Streamlit widgets of run_scraping_process
\* (a call on them returns or raises), the dummies of run_performance_test
\* (tests/test_performance.py 26-32, they return), any progress_callback or
\* none for process_policies_concurrent, and none for quick_test_hybrid.
InitParams ==
    /\ caller \in UiCallers \cup HybridCallers
    /\ \E n \in 0..MaxIds :
          /\ caller = "quick_test_hybrid" => n = 1
          /\ policy_numbers = [k \in 1..n |-> k]
          /\ remote \in [Ids -> {"row", "norow", "silent"}]
          /\ \A k \in Ids : k > n => remote[k] = "norow"
          /\ caller \in UiCallers => \A k \in Ids : remote[k] # "silent"
    /\ limit \in Limits
    /\ caller = "quick_test_hybrid" => limit = 1
    /\ batch_size \in BatchSizes
    /\ caller \in HybridCallers => batch_size = 1
    /\ use_concurrent \in BOOLEAN
    /\ caller # "run_scraping_process" => use_concurrent
    /\ sink \in {"none", "sound", "raising"}
    /\ caller = "run_scraping_process" => sink # "none"
    /\ caller = "run_performance_test" => sink = "sound"
    /\ caller = "quick_test_hybrid" => sink = "none"

Init ==
    /\ InitParams
    /\ mpc = "start"
    /\ logged_in = FALSE
    /\ batch_i = 0
    /\ semaphore = limit
    /\ tpc = [k \in Ids |-> "new"]
    /\ attempt = [k \in Ids |-> 0]
    /\ row = [k \in Ids |-> FALSE]
    /\ ret = [k \in Ids |-> NoRec]
    /\ page = BlankPage
    /\ results = <<>>
    /\ failed_policies = <<>>
    /\ completed_count = 0
    /\ progress = <<>>
    /\ successful = 0
    /\ failed = 0
    /\ nsearch = [k \in Ids |-> 0]
    /\ ndetail = [k \in Ids |-> 0]
    /\ calls = [k \in Ids |-> 0]
    /\ events = {}
    /\ done_order = <<>>
    /\ IdleSession
    /\ html = <<>>
    /\ current_year = 0
    /\ details = NoDetails
    /\ epc = "idle"
    /\ listing = <<>>
    /\ search_data = NoMapping
    /\ record = NoMapping

\* ------------------------------------------------- returning from a call
Continue(i, pc) ==
    /\ tpc' = [tpc EXCEPT ![i] = pc]
    /\ UNCHANGED <<ret, results, failed_policies, completed_count, done_order, progress,
                   semaphore, successful, failed>>

\* ui.py 96-118, search_single_policy_with_semaphore after search_policy
\* returned r: the failed list, the finally block's progress update, and the
\* release of the semaphore ("async with"), all without an await in between.
\* A sink call that raises in the finally block ends the task with the
\* exception in place of r.
ReturnConcurrent(i, r) ==
    LET fp == IF r.ok THEN failed_policies
              ELSE Append(failed_policies, policy_numbers[i])
    IN  /\ tpc' = [tpc EXCEPT ![i] = "done"]
        /\ \E raised \in SinkOutcomes :
              ret' = [ret EXCEPT ![i] = IF raised THEN TaskException ELSE r]
        /\ failed_policies' = fp
        /\ completed_count' = completed_count + 1
        /\ progress' = Append(progress,
                ProgressUpdate(completed_count + 1, Len(results), Len(fp)))
        /\ semaphore' = semaphore + 1
        /\ done_order' = Append(done_order, i)
        /\ UNCHANGED <<results, successful, failed>>

\* ui.py 59-71, the body of process_data's inner loop after search_policy
\* returned r.
ReturnSequential(i, r) ==
    /\ tpc' = [tpc EXCEPT ![i] = "done"]
    /\ ret' = [ret EXCEPT ![i] = r]
    /\ results' = IF r.ok THEN Append(results, r) ELSE results
    /\ failed_policies' = IF r.ok THEN failed_policies
                          ELSE Append(failed_policies, policy_numbers[i])
    /\ done_order' = Append(done_order, i)
    /\ UNCHANGED <<completed_count, progress, semaphore, successful, failed>>

\* requests_hybrid.py 197-224: process_policy returns r, its future is done.
ReturnHybrid(i, r) ==
    /\ tpc' = [tpc EXCEPT ![i] = "done"]
    /\ ret' = [ret EXCEPT ![i] = r]
    /\ done_order' = Append(done_order, i)
    /\ UNCHANGED <<results, failed_policies, completed_count, progress,
                   semaphore, successful, failed>>

Return(i, r) ==
    IF Mode = "concurrent" THEN ReturnConcurrent(i, r)
    ELSE IF Mode = "sequential" THEN ReturnSequential(i, r)
    ELSE ReturnHybrid(i, r)

\* ------------------------------------------- ISCScraper.search_policy
\* A retry loop that runs one attempt too many.
RetryAllowed_OneMore(a) == a <= max_retries

\* scraper.py 75: "if attempt < max_retries" retries, else gives up.
RetryAllowed(a) == a < max_retries

\* scraper.py 74-81: the except branch of the retry loop.
SearchFail(i) ==
    IF RetryAllowed(attempt[i])
    THEN /\ attempt' = [attempt EXCEPT ![i] = @ + 1]
         /\ nsearch' = [nsearch EXCEPT ![i] = @ + 1]
         /\ Continue(i, "goto_search")
    ELSE /\ UNCHANGED <<attempt, nsearch>>
         /\ Return(i, NoRec)

\* scraper.py 59: page.goto(search url, timeout=30000) completes or raises.
\* An unauthenticated session is sent to the login page.
GotoSearch(i) ==
    /\ tpc[i] = "goto_search"
    /\ \/ /\ remote[i] # "silent"
          /\ page' = [kind |-> IF logged_in THEN "form" ELSE "login",
                      of |-> 0, field |-> 0]
          /\ row' = [k \in Ids |-> FALSE]
          /\ Continue(i, "fill")
          /\ UNCHANGED <<attempt, nsearch, events>>
       \/ /\ SearchFail(i)
          /\ events' = events \cup {<<"fault", i>>}
          /\ UNCHANGED <<page, row>>
    /\ UNCHANGED <<svars, evars, params, mpc, logged_in, batch_i, ndetail, calls>>

\* scraper.py 60: page.fill(policy_number input); the input exists on the
\* search form only, elsewhere fill times out.
Fill(i) ==
    /\ tpc[i] = "fill"
    /\ IF page.kind = "form"
       THEN /\ page' = [page EXCEPT !.field = policy_numbers[i]]
            /\ Continue(i, "click")
            /\ UNCHANGED <<attempt, nsearch>>
       ELSE /\ SearchFail(i)
            /\ UNCHANGED page
    /\ UNCHANGED <<svars, evars, params, mpc, logged_in, batch_i, row, ndetail, calls>>
    /\ UNCHANGED events

\* scraper.py 61: page.click(submit) sends the form as it stands now.
Click(i) ==
    /\ tpc[i] = "click"
    /\ IF page.kind = "form"
       THEN /\ page' = [kind |-> "listing", of |-> page.field, field |-> 0]
            /\ row' = [k \in Ids |-> FALSE]
            /\ Continue(i, "query_row")
            /\ UNCHANGED <<attempt, nsearch>>
       ELSE /\ SearchFail(i)
            /\ UNCHANGED <<page, row>>
    /\ UNCHANGED <<svars, evars, params, mpc, logged_in, batch_i, ndetail, calls>>
    /\ UNCHANGED events

\* A selector that takes any row of a listing for the searched policy.
RowShown_AnyRow(i, unfiltered) == page.kind = "listing"

\* The rows of the page that tr.itemRow:has-text(policy_number) can match: a
\* listing for identifier f shows f's row when the portal has one; a listing
\* of a search with an empty field may or may not show it.
RowShown(i, unfiltered) ==
    /\ page.kind = "listing"
    /\ remote[i] = "row"
    /\ \/ page.of = policy_numbers[i]
       \/ page.of = 0 /\ unfiltered

\* scraper.py 64-72: wait_for_load_state(timeout=30000) then query_selector.
QueryRow(i) ==
    /\ tpc[i] = "query_row"
    /\ \/ /\ remote[i] # "silent"
          /\ \E unfiltered \in BOOLEAN :
                IF RowShown(i, unfiltered)
                THEN /\ row' = [row EXCEPT ![i] = TRUE]
                     /\ UNCHANGED events
                     /\ Continue(i, "row_data")
                ELSE /\ UNCHANGED row
                     /\ events' = events \cup {<<"notfound", i>>}
                     /\ Return(i, NoRec)
          /\ UNCHANGED <<attempt, nsearch>>
       \/ /\ SearchFail(i)
          /\ events' = events \cup {<<"fault", i>>}
          /\ UNCHANGED row
    /\ UNCHANGED <<svars, evars, params, mpc, logged_in, batch_i, page, ndetail, calls>>

\* scraper.py 85-104: the row's attributes and cells are read, then
\* page.goto(detail_url) is issued. A handle of a page that was navigated
\* away raises, and the except of line 132 returns None.
RowData(i) ==
    /\ tpc[i] = "row_data"
    /\ IF row[i]
       THEN /\ ndetail' = [ndetail EXCEPT ![i] = @ + 1]
            /\ Continue(i, "goto_detail")
       ELSE /\ UNCHANGED ndetail
            /\ Return(i, NoRec)
    /\ UNCHANGED <<svars, evars, params, mpc, logged_in, batch_i, attempt, row, page, nsearch, calls>>
    /\ UNCHANGED events

\* scraper.py 104-105 and 132-134: the detail navigation completes, is
\* redirected, or raises; an exception makes search_policy return None.
GotoDetail(i) ==
    /\ tpc[i] = "goto_detail"
    /\ \/ /\ page' = [kind |-> "detail", of |-> policy_numbers[i], field |-> 0]
          /\ row' = [k \in Ids |-> FALSE]
          /\ UNCHANGED events
          /\ Continue(i, "check_url")
       \/ /\ page' = [kind |-> "login", of |-> 0, field |-> 0]
          /\ row' = [k \in Ids |-> FALSE]
          /\ events' = events \cup {<<"fault", i>>}
          /\ Continue(i, "check_url")
       \/ /\ UNCHANGED <<page, row>>
          /\ events' = events \cup {<<"detail_failed", i>>, <<"fault", i>>}
          /\ Return(i, NoRec)
    /\ UNCHANGED <<svars, evars, params, mpc, logged_in, batch_i, attempt, nsearch, ndetail, calls>>

\* scraper.py 108-116: "detail/view" not in page.url gives details = {}.
CheckUrl(i) ==
    /\ tpc[i] = "check_url"
    /\ IF page.kind = "detail"
       THEN Continue(i, "content")
       ELSE Return(i, Rec(policy_numbers[i], policy_numbers[i], "none", 0))
    /\ UNCHANGED <<svars, evars, params, mpc, logged_in, batch_i, attempt, row, page,
                   nsearch, ndetail, calls>>
    /\ UNCHANGED events

\* scraper.py 136-229 and 118-130: extract_policy_details reads the content
\* of whatever the page shows now, or raises and yields {}.
Content(i) ==
    /\ tpc[i] = "content"
    /\ \/ /\ Return(i, Rec(policy_numbers[i], policy_numbers[i], page.kind, page.of))
          /\ UNCHANGED events
       \/ /\ Return(i, Rec(policy_numbers[i], policy_numbers[i], "none", 0))
          /\ events' = events \cup {<<"fault", i>>}
    /\ UNCHANGED <<svars, evars, params, mpc, logged_in, batch_i, attempt, row, page,
                   nsearch, ndetail, calls>>


\* ------------------------------------------ ui.py: process_data_concurrent
\* A semaphore that admits every waiter in turn, whatever its value.
CanAcquire_NoCap(i) ==
    \A k \in BatchOf(batch_i) : k < i => tpc[k] # "wait_sem"

\* asyncio.Semaphore: acquire succeeds while the value is positive, and the
\* waiters are served in the order they arrived (the order of the batch).
CanAcquire(i) ==
    /\ semaphore > 0
    /\ \A k \in BatchOf(batch_i) : k < i => tpc[k] # "wait_sem"

\* ui.py 96-98: "async with semaphore", then search_policy is called and
\* issues its first navigation.
Acquire(i) ==
    /\ mpc = "gather"
    /\ tpc[i] = "wait_sem"
    /\ CanAcquire(i)
    /\ semaphore' = semaphore - 1
    /\ tpc' = [tpc EXCEPT ![i] = "goto_search"]
    /\ calls' = [calls EXCEPT ![i] = @ + 1]
    /\ nsearch' = [nsearch EXCEPT ![i] = @ + 1]
    /\ UNCHANGED <<svars, evars, params, mpc, logged_in, batch_i, attempt, row, ret, page,
                   results, failed_policies, completed_count, done_order, progress,
                   successful, failed, ndetail>>
    /\ UNCHANGED events

\* ui.py 121-135: the batch message, then one coroutine per row of the
\* batch, handed to gather. A sink that raises ends process_data_concurrent.
StartBatch ==
    /\ mpc = "batch_start"
    /\ batch_i < total_rows
    /\ progress' = Append(progress, BatchMessage(batch_i))
    /\ \E raised \in SinkOutcomes :
          IF raised
          THEN /\ mpc' = "closing_sink"
               /\ UNCHANGED tpc
          ELSE /\ mpc' = "gather"
               /\ tpc' = [k \in Ids |-> IF k \in BatchOf(batch_i) THEN "wait_sem"
                                         ELSE tpc[k]]
    /\ UNCHANGED <<svars, evars, params, logged_in, batch_i, semaphore, attempt, row, ret, page,
                   results, failed_policies, completed_count, done_order,
                   successful, failed, nsearch, ndetail, calls>>
    /\ UNCHANGED events

\* A batch that a failed row ends at once, the rows behind it left alone.
BatchDone_AtFirstFailure ==
    \/ \A k \in BatchOf(batch_i) : tpc[k] = "done"
    \/ \E k \in BatchOf(batch_i) : tpc[k] = "done" /\ ~ret[k].ok

\* ui.py 135: gather(*tasks, return_exceptions=True) returns when every
\* task of the batch is done; ui.py 56-71: the inner loop ends after its
\* last row, a failed row is recorded and the loop goes on.
BatchDone == \A k \in BatchOf(batch_i) : tpc[k] = "done"

\* The truthy results of rows lo..hi, the last row first.
RECURSIVE Truthy_Backwards(_, _)
Truthy_Backwards(lo, hi) ==
    IF lo > hi THEN <<>>
    ELSE (IF ret[hi].ok THEN <<ret[hi]>> ELSE <<>>) \o Truthy_Backwards(lo, hi - 1)

\* The truthy results of rows lo..hi, in the order of the rows.
RECURSIVE Truthy(_, _)
Truthy(lo, hi) ==
    IF lo > hi THEN <<>>
    ELSE (IF ret[lo].ok THEN <<ret[lo]>> ELSE <<>>) \o Truthy(lo + 1, hi)

\* ui.py 135-144: gather returned; "for result in batch_results" appends
\* the truthy ones, then the loop moves to the next batch.
CollectBatch ==
    /\ mpc = "gather"
    /\ BatchDone
    /\ results' = results \o Truthy(batch_i + 1, Min(batch_i + batch_size, total_rows))
    /\ batch_i' = batch_i + batch_size
    /\ mpc' = "batch_start"
    /\ UNCHANGED <<svars, evars, params, logged_in, semaphore, tpc, attempt, row, ret, page,
                   failed_policies, completed_count, done_order, progress, successful, failed,
                   nsearch, ndetail, calls>>
    /\ UNCHANGED events

\* ui.py 146-153: the loop is over, the final message is issued and
\* process_data_concurrent returns results.
FinishConcurrent ==
    /\ mpc = "batch_start"
    /\ batch_i >= total_rows
    /\ progress' = Append(progress, FinalMessage(Len(results), Len(failed_policies)))
    /\ \E raised \in SinkOutcomes :
          mpc' = IF raised THEN "closing_sink" ELSE "closing"
    /\ UNCHANGED <<svars, evars, params, logged_in, batch_i, semaphore, tpc, attempt, row, ret,
                   page, results, failed_policies, completed_count, done_order,
                   successful, failed, nsearch, ndetail, calls>>
    /\ UNCHANGED events

\* ---------------------------------------------------- ui.py: process_data
\* ui.py 56-60: the next row of the batch; search_policy is awaited, so a
\* row starts only when the rows before it are done.
SeqCall(i) ==
    /\ mpc = "seq_batch"
    /\ i \in BatchOf(batch_i)
    /\ tpc[i] = "new"
    /\ \A k \in BatchOf(batch_i) : k < i => tpc[k] = "done"
    /\ tpc' = [tpc EXCEPT ![i] = "goto_search"]
    /\ calls' = [calls EXCEPT ![i] = @ + 1]
    /\ nsearch' = [nsearch EXCEPT ![i] = @ + 1]
    /\ UNCHANGED <<svars, evars, params, mpc, logged_in, batch_i, semaphore, attempt, row, ret,
                   page, results, failed_policies, completed_count, done_order, progress,
                   successful, failed, ndetail>>
    /\ UNCHANGED events

\* ui.py 42-53: the outer loop enters the batch of rows batch_i .. and
\* issues its progress fraction and batch message.
SeqStartBatch ==
    /\ mpc = "seq_start"
    /\ batch_i < total_rows
    /\ progress' = Append(progress, BatchMessage(batch_i))
    /\ \E raised \in SinkOutcomes :
          mpc' = IF raised THEN "closing_sink" ELSE "seq_batch"
    /\ UNCHANGED <<svars, evars, params, logged_in, batch_i, semaphore, tpc, attempt, row, ret,
                   page, results, failed_policies, completed_count, done_order,
                   successful, failed, nsearch, ndetail, calls>>
    /\ UNCHANGED events

\* ui.py 42 and 56: the inner loop is over, the outer loop moves on.
SeqNextBatch ==
    /\ mpc = "seq_batch"
    /\ BatchDone
    /\ batch_i' = batch_i + batch_size
    /\ mpc' = "seq_start"
    /\ UNCHANGED <<svars, evars, params, logged_in, semaphore, tpc, attempt, row, ret, page,
                   results, failed_policies, completed_count, done_order, progress,
                   successful, failed, nsearch, ndetail, calls>>
    /\ UNCHANGED events

\* ui.py 73-80: the loops are over, the final message is issued and
\* process_data returns results.
SeqFinish ==
    /\ mpc = "seq_start"
    /\ batch_i >= total_rows
    /\ progress' = Append(progress, FinalMessage(Len(results), Len(failed_policies)))
    /\ \E raised \in SinkOutcomes :
          mpc' = IF raised THEN "closing_sink" ELSE "closing"
    /\ UNCHANGED <<svars, evars, params, logged_in, batch_i, semaphore, tpc, attempt, row, ret,
                   page, results, failed_policies, completed_count, done_order,
                   successful, failed, nsearch, ndetail, calls>>
    /\ UNCHANGED events

\* ------------------------------------------------------------ the callers
\* ui.py 323-325 and requests_hybrid.py 461-463 return when login() is
\* False; tests/test_performance.py 66 and quick_test_hybrid.py 11 await
\* login() and go on whatever it returned.
ChecksLogin == caller \in {"run_scraping_process", "hybrid_main"}

AfterLogin ==
    IF Mode = "concurrent" THEN "batch_start"
    ELSE IF Mode = "sequential" THEN "seq_start"
    ELSE IF caller = "hybrid_main" THEN "submit"
    ELSE "quick_call"

\* The status messages of run_scraping_process (ui.py 317, 320, 325) go to
\* the sink inside the try block: one that raises ends the function
\* through its finally block.
StatusRaises == caller = "run_scraping_process" /\ TRUE \in SinkOutcomes

\* scraper.py 16-31: initialize() returns, or raises after close(); ui.py
\* 317-320: the messages before and after it.
Initialize ==
    /\ mpc = "start"
    /\ caller \in UiCallers
    /\ \/ mpc' = "login"
       \/ mpc' = "raised"
       \/ StatusRaises /\ mpc' = "closing_sink"
    /\ UNCHANGED <<svars, evars, params, logged_in, batch_i, semaphore, tpc, attempt, row, ret,
                   page, results, failed_policies, completed_count, done_order, progress,
                   successful, failed, nsearch, ndetail, calls>>
    /\ UNCHANGED events

\* scraper.py 35-49 with ui.py 323-332 or tests/test_performance.py 66-71;
\* requests_hybrid.py 68-144 with its caller.
Login ==
    /\ \/ mpc = "login"
       \/ mpc = "start" /\ caller \in HybridCallers
    /\ \/ /\ logged_in' = TRUE
          /\ mpc' = AfterLogin
       \/ /\ logged_in' = TRUE
          /\ StatusRaises
          /\ mpc' = "closing_sink"
       \/ /\ logged_in' = FALSE
          /\ mpc' = IF ChecksLogin
                    THEN (IF caller \in UiCallers THEN "login_failed" ELSE "aborted")
                    ELSE AfterLogin
    /\ UNCHANGED <<svars, evars, params, batch_i, semaphore, tpc, attempt, row, ret,
                   page, results, failed_policies, completed_count, done_order, progress,
                   successful, failed, nsearch, ndetail, calls>>
    /\ UNCHANGED events

\* ui.py 336-338 and tests/test_performance.py 83: scraper.close(); the
\* exception of a sink goes on to the caller behind it.
Close ==
    /\ mpc \in {"closing", "login_failed", "closing_sink"}
    /\ mpc' = IF mpc = "closing" THEN "returned"
              ELSE IF mpc = "login_failed" THEN "aborted"
              ELSE "sink_raised"
    /\ UNCHANGED <<svars, evars, params, logged_in, batch_i, semaphore, tpc, attempt, row, ret,
                   page, results, failed_policies, completed_count, done_order, progress,
                   successful, failed, nsearch, ndetail, calls>>
    /\ UNCHANGED events

\* --------------------------- requests_hybrid.py: process_policies_concurrent
\* requests_hybrid.py 256-261: every policy is submitted to the executor.
Submit ==
    /\ mpc = "submit"
    /\ tpc' = [k \in Ids |-> IF k <= total_rows THEN "queued" ELSE tpc[k]]
    /\ mpc' = "collect"
    /\ UNCHANGED <<svars, evars, params, logged_in, batch_i, semaphore, attempt, row, ret,
                   page, results, failed_policies, completed_count, done_order, progress,
                   successful, failed, nsearch, ndetail, calls>>
    /\ UNCHANGED events

\* requests_hybrid.py 197-201 and 146-184: process_policy calls
\* search_by_policy, which raises "Must login first" (caught at 222, None)
\* or issues session.get(search_url, params).
BeginProcessPolicy(i) ==
    /\ calls' = [calls EXCEPT ![i] = @ + 1]
    /\ IF logged_in
       THEN /\ nsearch' = [nsearch EXCEPT ![i] = @ + 1]
            /\ Continue(i, "h_summary")
       ELSE /\ UNCHANGED nsearch
            /\ Return(i, NoRec)

\* ThreadPoolExecutor(max_workers): a work item starts when fewer than
\* max_workers threads are busy, in the order of submission; the executor
\* runs what was submitted also while an exception leaves its with block.
WorkerFree(i) ==
    /\ Cardinality(InFlight) < limit
    /\ \A k \in 1..total_rows : k < i => tpc[k] # "queued"

StartWorker(i) ==
    /\ mpc \in {"collect", "sink_raised"}
    /\ caller = "hybrid_main"
    /\ tpc[i] = "queued"
    /\ WorkerFree(i)
    /\ BeginProcessPolicy(i)
    /\ UNCHANGED <<svars, evars, params, mpc, logged_in, batch_i, attempt, row, page, ndetail>>
    /\ UNCHANGED events

\* quick_test_hybrid.py 14: process_policy called directly.
QuickCall(i) ==
    /\ mpc = "quick_call"
    /\ i \in 1..total_rows
    /\ tpc[i] = "new"
    /\ BeginProcessPolicy(i)
    /\ UNCHANGED <<svars, evars, params, mpc, logged_in, batch_i, attempt, row, page, ndetail>>
    /\ UNCHANGED events

\* quick_test_hybrid.py 16-21: the result is printed.
QuickDone ==
    /\ mpc = "quick_call"
    /\ \A k \in 1..total_rows : tpc[k] = "done"
    /\ mpc' = "returned"
    /\ UNCHANGED <<svars, evars, params, logged_in, batch_i, semaphore, tpc, attempt, row, ret,
                   page, results, failed_policies, completed_count, done_order, progress,
                   successful, failed, nsearch, ndetail, calls>>
    /\ UNCHANGED events

\* requests_hybrid.py 184-193 and 202-208: the search response. A 200 whose
\* table holds the row gives search_data with its app_id, and
\* get_application_details issues session.get(detail_url); anything else
\* (no row, another status, an exception) makes process_policy return None.
HSummary(i) ==
    /\ tpc[i] = "h_summary"
    /\ remote[i] # "silent"
    /\ \/ /\ remote[i] = "row"
          /\ ndetail' = [ndetail EXCEPT ![i] = @ + 1]
          /\ UNCHANGED events
          /\ Continue(i, "h_detail")
       \/ /\ remote[i] = "norow"
          /\ UNCHANGED ndetail
          /\ events' = events \cup {<<"notfound", i>>}
          /\ Return(i, NoRec)
       \/ /\ UNCHANGED ndetail
          /\ events' = events \cup {<<"fault", i>>}
          /\ Return(i, NoRec)
    /\ UNCHANGED <<svars, evars, params, mpc, logged_in, batch_i, attempt, row, page, nsearch, calls>>

\* requests_hybrid.py 235-244 and 210-220: the detail response. A 200 is
\* parsed and merged; another status or an exception gives {} and the
\* record keeps the data of the search results.
HDetail(i) ==
    /\ tpc[i] = "h_detail"
    /\ \/ /\ UNCHANGED events
          /\ Return(i, Rec(policy_numbers[i], policy_numbers[i], "detail", policy_numbers[i]))
       \/ /\ events' = events \cup {<<"detail_failed", i>>, <<"fault", i>>}
          /\ Return(i, Rec(policy_numbers[i], policy_numbers[i], "none", 0))
    /\ UNCHANGED <<svars, evars, params, mpc, logged_in, batch_i, attempt, row, page,
                   nsearch, ndetail, calls>>

\* requests_hybrid.py 264-286: "for i, future in enumerate(future_to_policy)"
\* waits for the i-th future, counts it and calls progress_callback when
\* there is one. A callback that raises at line 280 is caught at line 282:
\* failed is counted once more and the callback is called again at line 286,
\* where an exception leaves process_policies_concurrent.
Collect ==
    /\ mpc = "collect"
    /\ batch_i < total_rows
    /\ tpc[batch_i + 1] = "done"
    /\ LET r == ret[batch_i + 1]
           s == IF r.ok THEN successful + 1 ELSE successful
           f == IF r.ok THEN failed ELSE failed + 1
       IN  /\ results' = IF r.ok THEN Append(results, r) ELSE results
           /\ successful' = s
           /\ IF sink = "none"
              THEN /\ failed' = f
                   /\ batch_i' = batch_i + 1
                   /\ UNCHANGED <<progress, mpc>>
              ELSE \E raised \in SinkOutcomes :
                     IF ~raised
                     THEN /\ failed' = f
                          /\ progress' = Append(progress, ProgressUpdate(batch_i + 1, s, f))
                          /\ batch_i' = batch_i + 1
                          /\ UNCHANGED mpc
                     ELSE /\ failed' = f + 1
                          /\ progress' = progress \o
                                <<ProgressUpdate(batch_i + 1, s, f),
                                  ProgressUpdate(batch_i + 1, s, f + 1)>>
                          /\ \E again \in SinkOutcomes :
                                IF again
                                THEN mpc' = "sink_raised" /\ UNCHANGED batch_i
                                ELSE batch_i' = batch_i + 1 /\ UNCHANGED mpc
    /\ UNCHANGED <<svars, evars, params, logged_in, semaphore, tpc, attempt, row, ret, page,
                   failed_policies, completed_count, done_order, nsearch, ndetail, calls>>
    /\ UNCHANGED events

\* requests_hybrid.py 288-293: the summary lines divide by
\* len(policy_numbers), then results is returned.
HFinish ==
    /\ mpc = "collect"
    /\ batch_i = total_rows
    /\ mpc' = IF total_rows = 0 THEN "raised" ELSE "returned"
    /\ UNCHANGED <<svars, evars, params, logged_in, batch_i, semaphore, tpc, attempt, row, ret,
                   page, results, failed_policies, completed_count, done_order, progress,
                   successful, failed, nsearch, ndetail, calls>>
    /\ UNCHANGED events

\* ------------------------------------------------ the detail-page markup
\* The markup is a sequence of tokens separated by white space. A token is
\*   "PT"    the text 'Policy Term:'
\*   "DTPT"  the element '<dt>Policy Term:</dt>'
\*   "CDL"   'Cancellation Date:</dt>'
\*   "DD"    an opening '<dd ...>'
\*   "EDD"   '</dd>'
\*   "TAG"   any other tag
\*   "-"     a hyphen
\*   "X"     text without '<', hyphen or date
\*   "date"  a text of the shape \d{2}/\d{2}/\d{4}, with its three numbers
Tok(t) == [t |-> t, m |-> 0, d |-> 0, y |-> 0]

Date(m, d, y) == [t |-> "date", m |-> m, d |-> d, y |-> y]

\* The dates of the documents: a term of one year, a term of long ago, and
\* a date no calendar has.
D1 == Date(7, 11, 2025)
D2 == Date(7, 11, 2026)
D0 == Date(1, 1, 1999)
D0b == Date(1, 1, 2000)
DI == Date(2, 30, 2025)

\* The years an extraction runs in: D1 - D2 is inside the window of 2026,
\* ends after the window of 2023 and starts before the window of 2027.
Years == {2023, 2026, 2027}

\* The pieces documents are made of.
Pieces ==
    {<<Tok("PT")>>, <<Tok("DTPT")>>, <<Tok("DD")>>, <<Tok("EDD")>>,
     <<Tok("DTPT"), Tok("DD")>>, <<Tok("CDL"), Tok("DD")>>,
     <<Tok("TAG")>>, <<Tok("-")>>, <<Tok("X")>>,
     <<Tok("X"), Tok("-"), Tok("X")>>, <<Tok("X"), D0>>,
     <<D1>>, <<D0>>, <<DI>>,
     <<D1, Tok("-"), D2>>, <<D2, Tok("-"), D1>>, <<D1, Tok("-"), D1>>,
     <<D0, Tok("-"), D0b>>, <<D1, Tok("-"), DI>>}

\* The documents of at most n pieces.
RECURSIVE DocsOf(_)
DocsOf(n) ==
    IF n = 0 THEN {<<>>}
    ELSE LET shorter == DocsOf(n - 1)
         IN  shorter \cup {doc \o piece : doc \in shorter, piece \in Pieces}

\* \d{2}/\d{2}/\d{4} matches the token.
IsDate(x) == x.t = "date"

\* The token holds the text 'Policy Term:'.
IsLabel(x) == x.t \in {"PT", "DTPT"}

\* [^<]+ can run over the token.
IsText(x) == x.t \in {"PT", "-", "X", "date"}

\* (\d{2}/\d{2}/\d{4})\s*-\s*(\d{2}/\d{2}/\d{4}) matches at position j.
RangeAt(h, j) ==
    /\ j >= 1
    /\ j + 2 <= Len(h)
    /\ IsDate(h[j])
    /\ h[j + 1].t = "-"
    /\ IsDate(h[j + 2])

\* re.search from position j on: the first position where the date range
\* pattern matches, 0 when there is none.
RECURSIVE SearchRange(_, _)
SearchRange(h, j) ==
    IF j > Len(h) THEN 0
    ELSE IF RangeAt(h, j) THEN j
    ELSE SearchRange(h, j + 1)

\* The first position from i on that holds 'Policy Term:', 0 when none does.
RECURSIVE SearchLabel(_, _)
SearchLabel(h, i) ==
    IF i > Len(h) THEN 0
    ELSE IF IsLabel(h[i]) THEN i
    ELSE SearchLabel(h, i + 1)

\* The first position from k on that [^<] does not match.
RECURSIVE TextEnd(_, _)
TextEnd(h, k) ==
    IF k > Len(h) THEN k
    ELSE IF IsText(h[k]) THEN TextEnd(h, k + 1)
    ELSE k

\* The first date of a text, as re.search(r'(\d{2}/\d{2}/\d{4})', text).
RECURSIVE FirstDate(_, _)
FirstDate(text, k) ==
    IF k > Len(text) THEN 0
    ELSE IF IsDate(text[k]) THEN k
    ELSE FirstDate(text, k + 1)

\* text.split('-'), each part stripped: the parts between the hyphens.
RECURSIVE Split(_, _, _)
Split(text, k, part) ==
    IF k > Len(text) THEN <<part>>
    ELSE IF text[k].t = "-" THEN <<part>> \o Split(text, k + 1, <<>>)
    ELSE Split(text, k + 1, Append(part, text[k]))

\* ------------------------------------------------ the detail-page extractor
\* What a strategy hands back: the two dates it set, and the method it logs.
NoTerm == [found |-> FALSE, effective_date |-> <<>>, expiration_date |-> <<>>,
           method |-> 0]

Term(eff, exp, n) == [found |-> TRUE, effective_date |-> eff,
                      expiration_date |-> exp, method |-> n]

\* requests_hybrid.py 366-370: the strict pattern
\* Cancellation Date:\s*</dt>\s*<dd[^>]*>\s*(\d{2}/\d{2}/\d{4}), leftmost match.
RECURSIVE StrictCancellation(_, _)
StrictCancellation(h, i) ==
    IF i + 2 > Len(h) THEN 0
    ELSE IF h[i].t = "CDL" /\ h[i + 1].t = "DD" /\ IsDate(h[i + 2]) THEN i + 2
    ELSE StrictCancellation(h, i + 1)

\* requests_hybrid.py 373-374: the fallback pattern
\* Cancellation Date:\s*</dt>\s*<dd[^>]*>([^<]+)</dd>, leftmost match; the
\* position of its <dd>, 0 when there is no match.
RECURSIVE AltCancellation(_, _)
AltCancellation(h, i) ==
    IF i + 2 > Len(h) THEN 0
    ELSE IF /\ h[i].t = "CDL"
            /\ h[i + 1].t = "DD"
            /\ TextEnd(h, i + 2) <= Len(h)
            /\ h[TextEnd(h, i + 2)].t = "EDD"
         THEN i + 1
    ELSE AltCancellation(h, i + 1)

\* A cancellation date that is looked up by the strict pattern only.
Cancellation_StrictOnly(h) ==
    LET s == StrictCancellation(h, 1)
    IN  IF s # 0 THEN <<h[s]>> ELSE <<>>

\* requests_hybrid.py 364-380 (scraper.py 149-165): the cancellation date,
\* <<>> when none was set.
Cancellation(h) ==
    LET s == StrictCancellation(h, 1)
    IN  IF s # 0 THEN <<h[s]>>
        ELSE LET a == AltCancellation(h, 1)
             IN  IF a = 0 THEN <<>>
                 ELSE LET text == SubSeq(h, a + 1, TextEnd(h, a + 1) - 1)
                          k == FirstDate(text, 1)
                      IN  IF k = 0 THEN <<>> ELSE <<text[k]>>

\* requests_hybrid.py 384-391 (scraper.py 168-174), method 1:
\* Policy Term:.*?(date)\s*-\s*(date) with DOTALL. The search starts at the
\* leftmost label that a range follows, which is the leftmost label, and the
\* lazy .*? stops at the first range behind it.
StrategyA(h) ==
    LET i == SearchLabel(h, 1)
        j == IF i = 0 THEN 0 ELSE SearchRange(h, i + 1)
    IN  IF j = 0 THEN NoTerm
        ELSE Term(<<h[j]>>, <<h[j + 2]>>, 1)

\* <dt[^>]*>Policy Term:</dt>\s*<dd[^>]*>([^<]+)</dd>, leftmost match: the
\* position of its <dd>, 0 when there is no match.
RECURSIVE SearchTermElement(_, _)
SearchTermElement(h, i) ==
    IF i + 2 > Len(h) THEN 0
    ELSE IF /\ h[i].t = "DTPT"
            /\ h[i + 1].t = "DD"
            /\ TextEnd(h, i + 2) <= Len(h)
            /\ h[TextEnd(h, i + 2)].t = "EDD"
         THEN i + 1
    ELSE SearchTermElement(h, i + 1)

\* requests_hybrid.py 393-404 (scraper.py 176-189), method 2: the text of
\* the value element is split on '-', and two parts are taken as the dates.
StrategyB(h) ==
    LET b == SearchTermElement(h, 1)
    IN  IF b = 0 THEN NoTerm
        ELSE LET term_text == SubSeq(h, b + 1, TextEnd(h, b + 1) - 1)
                 dates == Split(term_text, 1, <<>>)
             IN  IF Len(dates) = 2 THEN Term(dates[1], dates[2], 2)
                 ELSE NoTerm

\* re.findall(general_date_pattern, html): the matches from left to right,
\* each search starting behind the match before it.
RECURSIVE FindAll(_, _)
FindAll(h, j) ==
    LET k == SearchRange(h, j)
    IN  IF k = 0 THEN <<>>
        ELSE <<<<h[k], h[k + 2]>>>> \o FindAll(h, k + 3)

IsLeap(y) == (y % 4 = 0 /\ y % 100 # 0) \/ y % 400 = 0

DaysIn(m, y) ==
    IF m = 2 THEN (IF IsLeap(y) THEN 29 ELSE 28)
    ELSE IF m \in {4, 6, 9, 11} THEN 30
    ELSE 31

\* datetime.strptime(text, '%m/%d/%Y') returns a date.
Parses(x) ==
    /\ x.m \in 1..12
    /\ x.d >= 1
    /\ x.d <= DaysIn(x.m, x.y)
    /\ x.y >= 1

\* end_date > start_date
Later(e, s) ==
    \/ e.y > s.y
    \/ e.y = s.y /\ e.m > s.m
    \/ e.y = s.y /\ e.m = s.m /\ e.d > s.d

\* A validation that looks at the years only.
Reasonable_YearsOnly(match, cy) ==
    /\ Parses(match[1])
    /\ Parses(match[2])
    /\ match[1].y >= cy - 1
    /\ match[2].y <= cy + 2

\* requests_hybrid.py 415-429: a match passes when both dates parse and
\* the "basic validation" holds; a date that does not parse raises, and the
\* except goes on to the next match.
Reasonable(match, cy) ==
    /\ Parses(match[1])
    /\ Parses(match[2])
    /\ match[1].y >= cy - 1
    /\ match[2].y <= cy + 2
    /\ Later(match[2], match[1])

\* requests_hybrid.py 412-429: "for i, match in enumerate(matches)".
RECURSIVE FirstReasonable(_, _, _)
FirstReasonable(matches, i, cy) ==
    IF i > Len(matches) THEN NoTerm
    ELSE IF Reasonable(matches[i], cy)
         THEN Term(<<matches[i][1]>>, <<matches[i][2]>>, 3)
    ELSE FirstReasonable(matches, i + 1, cy)

\* requests_hybrid.py 406-429 (scraper.py 191-214), method 3.
StrategyC(h, cy) == FirstReasonable(FindAll(h, 1), 1, cy)

\* A chain that asks the general pattern before the label.
PolicyTerm_GeneralFirst(h, cy) ==
    LET c == StrategyC(h, cy)
    IN  IF c.found THEN c
        ELSE LET a == StrategyA(h)
             IN  IF a.found THEN a ELSE StrategyB(h)

\* requests_hybrid.py 382-435: each method returns as soon as it has set the
\* two dates; the next one runs only when the one before set nothing.
PolicyTerm(h, cy) ==
    LET a == StrategyA(h)
    IN  IF a.found THEN a
        ELSE LET b == StrategyB(h)
             IN  IF b.found THEN b ELSE StrategyC(h, cy)

\* requests_hybrid.py 360-439, _parse_detail_page_html: the mapping returned
\* for markup h in year cy.
ParseDetail(h, cy) ==
    LET c == Cancellation(h)
        t == PolicyTerm(h, cy)
    IN  [has_cancellation |-> c # <<>>, cancellation_date |-> c,
         has_term |-> t.found, effective_date |-> t.effective_date,
         expiration_date |-> t.expiration_date, method |-> t.method]

\* An extractor call starts with some document, in some year.
InitExtract ==
    /\ html \in DocsOf(MaxPieces)
    /\ current_year \in Years
    /\ details = NoDetails
    /\ epc = "ready"
    /\ IdleSession
    /\ listing = <<>>
    /\ search_data = NoMapping
    /\ record = NoMapping
    /\ caller = "hybrid_main"
    /\ policy_numbers = <<>>
    /\ limit = 1
    /\ batch_size = 1
    /\ use_concurrent = TRUE
    /\ remote = [k \in Ids |-> "norow"]
    /\ sink = "none"
    /\ mpc = "start"
    /\ logged_in = FALSE
    /\ batch_i = 0
    /\ semaphore = 1
    /\ tpc = [k \in Ids |-> "new"]
    /\ attempt = [k \in Ids |-> 0]
    /\ row = [k \in Ids |-> FALSE]
    /\ ret = [k \in Ids |-> NoRec]
    /\ page = BlankPage
    /\ results = <<>>
    /\ failed_policies = <<>>
    /\ completed_count = 0
    /\ progress = <<>>
    /\ successful = 0
    /\ failed = 0
    /\ nsearch = [k \in Ids |-> 0]
    /\ ndetail = [k \in Ids |-> 0]
    /\ calls = [k \in Ids |-> 0]
    /\ events = {}
    /\ done_order = <<>>

\* requests_hybrid.py 360-439: _parse_detail_page_html(html) returns.
ParseDetailPageHtml ==
    /\ epc = "ready"
    /\ details' = ParseDetail(html, current_year)
    /\ epc' = "returned"
    /\ UNCHANGED <<svars, bvars, listing, html, current_year, search_data, record>>

\* scraper.py 136-229: extract_policy_details reads page.content() and
\* returns what the same patterns give, or the page raises and the except
\* returns {}.
ExtractPolicyDetails ==
    /\ epc = "ready"
    /\ \/ /\ details' = ParseDetail(html, current_year)
          /\ epc' = "returned"
       \/ /\ details' = NoDetails
          /\ epc' = "caught"
    /\ UNCHANGED <<svars, bvars, listing, html, current_year, search_data, record>>

NextExtract ==
    \/ ParseDetailPageHtml
    \/ ExtractPolicyDetails

SpecExtract == InitExtract /\ [][NextExtract]_vars

\* ------------------------------------------------- assembling the record
\* A text that names what it stands for.
Text(name) == <<Tok(name)>>

\* The keys _extract_search_results_data always sets
\* (requests_hybrid.py 316-325).
SummaryKeys == {"policy_number", "app_id", "status", "applicant_company",
                "state", "program", "total_cost", "effective_date"}

DateKeys == {"effective_date", "expiration_date", "cancellation_date"}

\* The effective date of the summary row.
SummaryDate == <<Date(6, 1, 2025)>>

\* requests_hybrid.py 316-343: the mapping of a row of ncells cells: nine
\* cells give every column, eight give all but the effective date, fewer
\* leave the columns ''.
SummaryOf(ncells) ==
    [k \in SummaryKeys |->
        IF k \in {"policy_number", "app_id"} THEN Text(k)
        ELSE IF k = "effective_date"
             THEN (IF ncells >= 9 THEN SummaryDate ELSE <<>>)
        ELSE (IF ncells >= 8 THEN Text(k) ELSE <<>>)]

Summaries == {SummaryOf(7), SummaryOf(8), SummaryOf(9)}

\* Every mapping the extractor can return for the documents and years, and
\* the {} of a detail fetch that failed.
DetailOutputs ==
    {ParseDetail(h, cy) : h \in DocsOf(MaxPieces), cy \in Years} \cup {NoDetails}

\* d.get(key, ''): the value of a key of the extractor's mapping.
DetailValue(d, key) ==
    IF key = "cancellation_date"
    THEN (IF d.has_cancellation THEN d.cancellation_date ELSE <<>>)
    ELSE IF ~d.has_term THEN <<>>
    ELSE IF key = "effective_date" THEN d.effective_date
    ELSE d.expiration_date

\* A mapping that holds the one key only.
Put_Alone(f, key, value) == [k \in {key} |-> value]

\* mapping[key] = value
Put(f, key, value) ==
    [k \in DOMAIN f \cup {key} |-> IF k = key THEN value ELSE f[k]]

\* A merge that stores all three dates, empty or not.
MergeDetail_Overwrite(sd, d) ==
    Put(Put(Put(sd, "expiration_date", DetailValue(d, "expiration_date")),
            "cancellation_date", DetailValue(d, "cancellation_date")),
        "effective_date", DetailValue(d, "effective_date"))

\* A merge that copies every date key of the detail mapping.
MergeDetail_Update(sd, d) ==
    LET r1 == IF d.has_term
              THEN Put(Put(sd, "effective_date", d.effective_date),
                       "expiration_date", d.expiration_date)
              ELSE sd
    IN  IF d.has_cancellation THEN Put(r1, "cancellation_date", d.cancellation_date)
        ELSE r1

\* requests_hybrid.py 212-218: "if detail_data.get(key): search_data[key] =
\* detail_data[key]" for expiration_date, cancellation_date, effective_date.
MergeDetail(sd, d) ==
    LET r1 == IF DetailValue(d, "expiration_date") # <<>>
              THEN Put(sd, "expiration_date", DetailValue(d, "expiration_date"))
              ELSE sd
        r2 == IF DetailValue(d, "cancellation_date") # <<>>
              THEN Put(r1, "cancellation_date", DetailValue(d, "cancellation_date"))
              ELSE r1
    IN  IF DetailValue(d, "effective_date") # <<>>
        THEN Put(r2, "effective_date", DetailValue(d, "effective_date"))
        ELSE r2

\* scraper.py 119-130: the ten keys, the columns from the row and the three
\* dates from details.get(key, '').
BuildRecord(sd, d) ==
    [k \in SummaryKeys \cup DateKeys |->
        IF k \in DateKeys THEN DetailValue(d, k) ELSE sd[k]]

\* No batch runs.
IdleBatch ==
    /\ caller = "hybrid_main"
    /\ policy_numbers = <<>>
    /\ limit = 1
    /\ batch_size = 1
    /\ use_concurrent = TRUE
    /\ remote = [k \in Ids |-> "norow"]
    /\ sink = "none"
    /\ mpc = "start"
    /\ logged_in = FALSE
    /\ batch_i = 0
    /\ semaphore = 1
    /\ tpc = [k \in Ids |-> "new"]
    /\ attempt = [k \in Ids |-> 0]
    /\ row = [k \in Ids |-> FALSE]
    /\ ret = [k \in Ids |-> NoRec]
    /\ page = BlankPage
    /\ results = <<>>
    /\ failed_policies = <<>>
    /\ completed_count = 0
    /\ progress = <<>>
    /\ successful = 0
    /\ failed = 0
    /\ nsearch = [k \in Ids |-> 0]
    /\ ndetail = [k \in Ids |-> 0]
    /\ calls = [k \in Ids |-> 0]
    /\ events = {}
    /\ done_order = <<>>

\* The summary row was parsed and the detail mapping is at hand.
InitAssemble ==
    /\ details \in DetailOutputs
    /\ search_data \in Summaries
    /\ record = NoMapping
    /\ epc = "extracted"
    /\ IdleSession
    /\ listing = <<>>
    /\ html = <<>>
    /\ current_year = 0
    /\ IdleBatch

\* requests_hybrid.py 205-220: process_policy merges and returns search_data.
ProcessPolicyMerge ==
    /\ epc = "extracted"
    /\ record' = MergeDetail(search_data, details)
    /\ epc' = "merged"
    /\ UNCHANGED <<svars, bvars, listing, html, current_year, details, search_data>>

\* scraper.py 118-130: search_policy returns the combined mapping.
SearchPolicyCombine ==
    /\ epc = "extracted"
    /\ record' = BuildRecord(search_data, details)
    /\ epc' = "combined"
    /\ UNCHANGED <<svars, bvars, listing, html, current_year, details, search_data>>

NextAssemble ==
    \/ ProcessPolicyMerge
    \/ SearchPolicyCombine

SpecAssemble == InitAssemble /\ [][NextAssemble]_vars

\* ------------------------------------------------- the summary listing
\* The listing is the sequence of the <tr> rows of the results page. A row
\* is an item row (class itemRow) or another row, an item row carries a
\* data-id attribute (its position) or none, a row holds the searched policy
\* number in its text or not, and has ncells <td> cells; cell c of row r
\* holds the text Cell(r, c).
Cell(r, c) == <<[t |-> "cell", m |-> r, d |-> c, y |-> 0]>>

Rows == {r \in [item : BOOLEAN, id : BOOLEAN, match : BOOLEAN, ncells : {7, 8, 9}] :
            r.id => r.item}

\* The listings of at most n rows.
RECURSIVE ListingsOf(_)
ListingsOf(n) ==
    IF n = 0 THEN {<<>>}
    ELSE LET shorter == ListingsOf(n - 1)
         IN  shorter \cup {Append(l, r) : l \in shorter, r \in Rows}

\* The first item row with a data-id from i on (the opening tag the row
\* pattern asks for), the first row from i on that holds the policy number,
\* and the first item row from i on that holds it; 0 when there is none.
RECURSIVE FirstItemRow(_, _)
FirstItemRow(l, i) ==
    IF i > Len(l) THEN 0
    ELSE IF l[i].item /\ l[i].id THEN i
    ELSE FirstItemRow(l, i + 1)

RECURSIVE FirstMatch(_, _)
FirstMatch(l, i) ==
    IF i > Len(l) THEN 0
    ELSE IF l[i].match THEN i
    ELSE FirstMatch(l, i + 1)

RECURSIVE FirstMatchingItemRow(_, _)
FirstMatchingItemRow(l, i) ==
    IF i > Len(l) THEN 0
    ELSE IF l[i].item /\ l[i].match THEN i
    ELSE FirstMatchingItemRow(l, i + 1)

\* re.findall(td_pattern, row_html): the cells of rows i..j, in order.
RECURSIVE CellsOf(_, _, _)
CellsOf(l, i, j) ==
    IF i > j THEN <<>>
    ELSE [c \in 1..l[i].ncells |-> Cell(i, c - 1)] \o CellsOf(l, i + 1, j)

\* The columns the record takes from the cells, by position.
ColumnOf(key) ==
    IF key = "status" THEN 3
    ELSE IF key = "applicant_company" THEN 4
    ELSE IF key = "state" THEN 5
    ELSE IF key = "program" THEN 6
    ELSE IF key = "total_cost" THEN 7
    ELSE 8

\* requests_hybrid.py 316-343: data, filled from cells (cells[n] is
\* cells[n + 1] here).
DataOf(app_id, cells) ==
    [k \in SummaryKeys |->
        IF k = "policy_number" THEN Text(k)
        ELSE IF k = "app_id" THEN Cell(app_id, 1)
        ELSE IF k = "effective_date"
             THEN (IF Len(cells) >= 9 THEN cells[9] ELSE <<>>)
        ELSE (IF Len(cells) >= 8 THEN cells[ColumnOf(k) + 1] ELSE <<>>)]

\* requests_hybrid.py 300-301: re.search of
\* <tr ... itemRow ... data-id='(\d+)' ...>.*?policy_number.*?</tr> with
\* DOTALL. The match starts at the first item row with a data-id that the policy number
\* follows anywhere, and the lazy .*? ends it at the first </tr> behind the
\* first occurrence of the policy number: <<first row, last row>> of the
\* match, <<0, 0>> when there is none.
RowMatch(l) ==
    LET i == FirstItemRow(l, 1)
        j == IF i = 0 THEN 0 ELSE FirstMatch(l, i)
    IN  IF j = 0 THEN <<0, 0>> ELSE <<i, j>>

\* requests_hybrid.py 295-349, _extract_search_results_data: the mapping,
\* NoMapping for None.
ExtractSearchResults(l) ==
    LET m == RowMatch(l)
    IN  IF m[1] = 0 THEN NoMapping
        ELSE DataOf(m[1], CellsOf(l, m[1], m[2]))

\* scraper.py 67-99: query_selector('tr.itemRow:has-text(policy_number)')
\* gives the first item row that holds the policy number; data-id (None,
\* here <<>>, when the row has no such attribute) and td:nth-child(4) ..
\* td:nth-child(8) are read from that row, '' for a cell the row does not
\* have.
QuerySelectorRow(l) ==
    LET i == FirstMatchingItemRow(l, 1)
    IN  IF i = 0 THEN NoMapping
        ELSE [k \in SummaryKeys \ {"effective_date"} |->
                IF k = "policy_number" THEN Text(k)
                ELSE IF k = "app_id" THEN (IF l[i].id THEN Cell(i, 1) ELSE <<>>)
                ELSE IF ColumnOf(k) < l[i].ncells THEN Cell(i, ColumnOf(k))
                ELSE <<>>]

\* The results page came back with some listing.
InitListing ==
    /\ listing \in ListingsOf(MaxRows)
    /\ search_data = NoMapping
    /\ epc = "listed"
    /\ IdleSession
    /\ record = NoMapping
    /\ details = NoDetails
    /\ html = <<>>
    /\ current_year = 0
    /\ IdleBatch

\* requests_hybrid.py 185-187: search_by_policy returns what
\* _extract_search_results_data gives.
ExtractSearchResultsData ==
    /\ epc = "listed"
    /\ search_data' = ExtractSearchResults(listing)
    /\ epc' = IF search_data' = NoMapping THEN "no_data" ELSE "data"
    /\ UNCHANGED <<svars, bvars, listing, html, current_year, details, record>>

\* scraper.py 67-99: the row is queried and its columns are read.
ReadRow ==
    /\ epc = "listed"
    /\ search_data' = QuerySelectorRow(listing)
    /\ epc' = IF search_data' = NoMapping THEN "no_row" ELSE "row"
    /\ UNCHANGED <<svars, bvars, listing, html, current_year, details, record>>

\* requests_hybrid.py 205-208: "if app_id:" get_application_details issues
\* the detail fetch.
GetApplicationDetails ==
    /\ epc = "data"
    /\ epc' = IF search_data["app_id"] # <<>> THEN "detail_requested" ELSE "no_detail"
    /\ UNCHANGED <<svars, bvars, listing, html, current_year, details, record, search_data>>

\* scraper.py 100-104: detail_url is formatted from app_id and
\* page.goto(detail_url) is issued.
GotoDetailUrl ==
    /\ epc = "row"
    /\ epc' = "detail_requested"
    /\ UNCHANGED <<svars, bvars, listing, html, current_year, details, record, search_data>>

NextListing ==
    \/ ExtractSearchResultsData
    \/ ReadRow
    \/ GetApplicationDetails
    \/ GotoDetailUrl

SpecListing == InitListing /\ [][NextListing]_vars

\* ------------------------------------- setting a session up, tearing it down
\* The browser resources: the Playwright driver, the browser and its page.
Res == {"playwright", "browser", "page"}

\* The functions that set a session up: ui.py run_scraping_process,
\* tests/test_scraper.py test_initialization (initialize, then close), and
\* ISCRequestsHybrid.login.
Entries == {"run_scraping_process", "test_initialization", "hybrid_login"}

\* The positions inside ISCScraper.close, and those behind the entry.
ClosePositions == {"c_page", "c_browser", "c_playwright", "e_browser", "e_playwright"}
Exits == {"exit_returned", "exit_raised"}

Goto(pc) == [session EXCEPT !.pc = pc]

\* Resource r was acquired; the resources rs were released; their release
\* was called and raised.
Opened(s, r) == [s EXCEPT !.open = @ \cup {r}]
Released(s, rs) == [s EXCEPT !.open = @ \ rs, !.tried = @ \cup rs]
Attempted(s, rs) == [s EXCEPT !.tried = @ \cup rs]

\* An exception leaves the entry.
Raise(s) == [s EXCEPT !.pc = "exit_raised", !.exc = TRUE]

\* close() is called and returns to position after; close() returns.
CallClose(s, after) == [s EXCEPT !.pc = "c_page", !.after = after]
CloseReturn(s) == [s EXCEPT !.pc = s.after, !.closes = @ + 1]

InitSession ==
    /\ IdleBatch
    /\ html = <<>>
    /\ current_year = 0
    /\ details = NoDetails
    /\ epc = "idle"
    /\ listing = <<>>
    /\ search_data = NoMapping
    /\ record = NoMapping
    /\ scraper = NewScraper
    /\ \E e \in Entries :
          session = [entry |-> e,
                     pc |-> IF e = "hybrid_login" THEN "h_start" ELSE "i_start",
                     open |-> {}, tried |-> {}, exc |-> FALSE, closes |-> 0,
                     close_raised |-> {}, after |-> "idle",
                     installed |-> FALSE]

\* An except branch that re-raises without cleaning up.
InitializeFails_NoClose ==
    /\ session' = [session EXCEPT !.pc = "init_raised", !.exc = TRUE]
    /\ UNCHANGED scraper

\* scraper.py 28-31: the except branch of initialize: close(), then raise.
InitializeFails ==
    /\ session' = CallClose([session EXCEPT !.exc = TRUE], "init_raised")
    /\ UNCHANGED scraper

\* ui.py 315-319: the status message before initialize() raises, and the
\* finally block closes a scraper that was never initialized.
StatusMessageRaises ==
    /\ session.pc = "i_start"
    /\ session.entry = "run_scraping_process"
    /\ session' = CallClose([session EXCEPT !.exc = TRUE], "exit_raised")
    /\ UNCHANGED <<scraper, bvars, evars>>

\* scraper.py 19: self.playwright = await async_playwright().start()
StartPlaywright ==
    /\ session.pc = "i_start"
    /\ \/ /\ scraper' = [scraper EXCEPT !.playwright = "set"]
          /\ session' = Opened(Goto("i_launch"), "playwright")
       \/ InitializeFails
    /\ UNCHANGED <<bvars, evars>>

\* scraper.py 20-23: self.browser = await self.playwright.chromium.launch(...)
LaunchBrowser ==
    /\ session.pc = "i_launch"
    /\ \/ /\ scraper' = [scraper EXCEPT !.browser = "set"]
          /\ session' = Opened(Goto("i_new_page"), "browser")
       \/ InitializeFails
    /\ UNCHANGED <<bvars, evars>>

\* scraper.py 24: self.page = await self.browser.new_page()
NewPage ==
    /\ session.pc = "i_new_page"
    /\ \/ /\ scraper' = [scraper EXCEPT !.page = "set"]
          /\ session' = Opened(Goto("i_timeouts"), "page")
       \/ InitializeFails
    /\ UNCHANGED <<bvars, evars>>

\* scraper.py 25-27: the two timeouts are set and initialize() returns.
SetTimeouts ==
    /\ session.pc = "i_timeouts"
    /\ \/ /\ session' = Goto("initialized")
          /\ UNCHANGED scraper
       \/ InitializeFails
    /\ UNCHANGED <<bvars, evars>>

\* ui.py 320-323: run_scraping_process goes on to login();
\* tests/test_scraper.py 19-22: the test asserts and calls close().
Initialized ==
    /\ session.pc = "initialized"
    /\ session' = IF session.entry = "run_scraping_process" THEN Goto("s_login")
                  ELSE CallClose(session, "exit_returned")
    /\ UNCHANGED <<scraper, bvars, evars>>

\* scraper.py 31: the exception of initialize() reaches its caller: the
\* finally block of run_scraping_process (ui.py 336-338), or the test.
InitRaised ==
    /\ session.pc = "init_raised"
    /\ session' = IF session.entry = "run_scraping_process"
                  THEN CallClose(session, "exit_raised")
                  ELSE Goto("exit_raised")
    /\ UNCHANGED <<scraper, bvars, evars>>

\* ui.py 322-325: login() is True, or it is False and the function returns
\* None through its finally block.
ScraperLogin ==
    /\ session.pc = "s_login"
    /\ \/ session' = Goto("s_work")
       \/ session' = CallClose(session, "exit_returned")
    /\ UNCHANGED <<scraper, bvars, evars>>

\* ui.py 327-338: the batch is processed and returns its results, or an
\* exception leaves it; the finally block calls close().
ProcessBatch ==
    /\ session.pc = "s_work"
    /\ \/ session' = CallClose(session, "exit_returned")
       \/ session' = CallClose([session EXCEPT !.exc = TRUE], "exit_raised")
    /\ UNCHANGED <<scraper, bvars, evars>>

\* scraper.py 411: a caller calls close() once more on the same scraper.
CloseAgain ==
    /\ session.pc \in Exits
    /\ session.entry # "hybrid_login"
    /\ session.closes < MaxCloseCalls
    /\ session' = CallClose(session, session.pc)
    /\ UNCHANGED <<scraper, bvars, evars>>

\* scraper.py 414-416: "if self.page:" page.close(), self.page = None; an
\* exception goes to the except branch.
ClosePage ==
    /\ session.pc = "c_page"
    /\ IF scraper.page = "set"
       THEN \/ /\ scraper' = [scraper EXCEPT !.page = "none"]
               /\ session' = Released(Goto("c_browser"), {"page"})
            \/ /\ UNCHANGED scraper
               /\ session' = [Attempted(Goto("e_browser"), {"page"})
                                EXCEPT !.close_raised = @ \cup {"page"}]
       ELSE /\ UNCHANGED scraper
            /\ session' = Goto("c_browser")
    /\ UNCHANGED <<bvars, evars>>

\* scraper.py 417-419: "if self.browser:" browser.close(), self.browser =
\* None. Closing the browser closes its page.
CloseBrowser ==
    /\ session.pc = "c_browser"
    /\ IF scraper.browser = "set"
       THEN \/ /\ scraper' = [scraper EXCEPT !.browser = "none"]
               /\ session' = Released(Goto("c_playwright"), {"browser", "page"})
            \/ /\ UNCHANGED scraper
               /\ session' = [Attempted(Goto("e_browser"), {"browser", "page"})
                                EXCEPT !.close_raised = @ \cup {"browser"}]
       ELSE /\ UNCHANGED scraper
            /\ session' = Goto("c_playwright")
    /\ UNCHANGED <<bvars, evars>>

\* scraper.py 420-422: "if hasattr(self, 'playwright') and self.playwright:"
\* playwright.stop(), self.playwright = None; then close() returns.
\* Stopping the driver ends everything it started.
StopPlaywright ==
    /\ session.pc = "c_playwright"
    /\ IF scraper.playwright = "set"
       THEN \/ /\ scraper' = [scraper EXCEPT !.playwright = "none"]
               /\ session' = Released(CloseReturn(session), Res)
            \/ /\ UNCHANGED scraper
               /\ session' = [Attempted(Goto("e_browser"), Res)
                                EXCEPT !.close_raised = @ \cup {"playwright"}]
       ELSE /\ UNCHANGED scraper
            /\ session' = CloseReturn(session)
    /\ UNCHANGED <<bvars, evars>>

\* An except branch that leaves the browser as it is.
ForceCloseBrowser_Skip ==
    /\ session.pc = "e_browser"
    /\ session' = Goto("e_playwright")
    /\ UNCHANGED <<scraper, bvars, evars>>

\* scraper.py 423-431: the except branch: "if self.browser:" browser.close()
\* inside try/except: pass, then self.browser = None.
ForceCloseBrowser ==
    /\ session.pc = "e_browser"
    /\ IF scraper.browser = "set"
       THEN /\ scraper' = [scraper EXCEPT !.browser = "none"]
            /\ \/ session' = Released(Goto("e_playwright"), {"browser", "page"})
               \/ session' = Attempted(Goto("e_playwright"), {"browser", "page"})
       ELSE /\ UNCHANGED scraper
            /\ session' = Goto("e_playwright")
    /\ UNCHANGED <<bvars, evars>>

\* scraper.py 432-437: "if hasattr(self, 'playwright') and self.playwright:"
\* playwright.stop() inside try/except: pass, then self.playwright = None;
\* close() returns.
ForceStopPlaywright ==
    /\ session.pc = "e_playwright"
    /\ IF scraper.playwright = "set"
       THEN /\ scraper' = [scraper EXCEPT !.playwright = "none"]
            /\ \/ session' = Released(CloseReturn(session), Res)
               \/ session' = Attempted(CloseReturn(session), Res)
       ELSE /\ UNCHANGED scraper
            /\ session' = CloseReturn(session)
    /\ UNCHANGED <<bvars, evars>>

\* One step of close().
CloseStep ==
    \/ ClosePage \/ CloseBrowser \/ StopPlaywright
    \/ ForceCloseBrowser \/ ForceStopPlaywright

\* requests_hybrid.py 70: playwright = await async_playwright().start(),
\* outside every try block.
HStartPlaywright ==
    /\ session.pc = "h_start"
    /\ \/ session' = Opened(Goto("h_launch"), "playwright")
       \/ session' = Raise(session)
    /\ UNCHANGED <<scraper, bvars, evars>>

\* requests_hybrid.py 72-96: the browser is launched; "Executable doesn't
\* exist" leads to the installation, any other exception to
\* playwright.stop() and return False.
HLaunch ==
    /\ session.pc = "h_launch"
    /\ \/ session' = Opened(Goto("h_new_page"), "browser")
       \/ session' = Goto("h_install")
       \/ session' = Goto("h_stop")
    /\ UNCHANGED <<scraper, bvars, evars>>

\* requests_hybrid.py 81-92: playwright install, then the second launch.
HInstallLaunch ==
    /\ session.pc = "h_install"
    /\ \/ session' = Opened([Goto("h_new_page") EXCEPT !.installed = TRUE], "browser")
       \/ session' = [Goto("h_stop") EXCEPT !.installed = TRUE]
    /\ UNCHANGED <<scraper, bvars, evars>>

\* requests_hybrid.py 91-92 and 95-96: await playwright.stop(); return False
HStop ==
    /\ session.pc = "h_stop"
    /\ \/ session' = Released(Goto("exit_returned"), Res)
       \/ session' = Attempted(Raise(session), {"playwright"})
    /\ UNCHANGED <<scraper, bvars, evars>>

\* requests_hybrid.py 98: page = await browser.new_page(), between the two
\* try blocks.
HNewPage ==
    /\ session.pc = "h_new_page"
    /\ \/ session' = Opened(Goto("h_login"), "page")
       \/ session' = Raise(session)
    /\ UNCHANGED <<scraper, bvars, evars>>

\* requests_hybrid.py 100-140: the login steps return True or False, or an
\* exception is caught and False is returned; the finally block follows.
HLoginSteps ==
    /\ session.pc = "h_login"
    /\ session' = Goto("h_finally")
    /\ UNCHANGED <<scraper, bvars, evars>>

\* requests_hybrid.py 142-143: finally: await browser.close()
HFinallyBrowser ==
    /\ session.pc = "h_finally"
    /\ \/ session' = Released(Goto("h_finally_stop"), {"browser", "page"})
       \/ session' = Attempted(Raise(session), {"browser", "page"})
    /\ UNCHANGED <<scraper, bvars, evars>>

\* requests_hybrid.py 144: await playwright.stop(), then login() returns.
HFinallyStop ==
    /\ session.pc = "h_finally_stop"
    /\ \/ session' = Released(Goto("exit_returned"), Res)
       \/ session' = Attempted(Raise(session), {"playwright"})
    /\ UNCHANGED <<scraper, bvars, evars>>

NextSession ==
    \/ StatusMessageRaises
    \/ StartPlaywright
    \/ LaunchBrowser
    \/ NewPage
    \/ SetTimeouts
    \/ Initialized
    \/ InitRaised
    \/ ScraperLogin
    \/ ProcessBatch
    \/ CloseAgain
    \/ ClosePage
    \/ CloseBrowser
    \/ StopPlaywright
    \/ ForceCloseBrowser
    \/ ForceStopPlaywright
    \/ HStartPlaywright
    \/ HLaunch
    \/ HInstallLaunch
    \/ HStop
    \/ HNewPage
    \/ HLoginSteps
    \/ HFinallyBrowser
    \/ HFinallyStop

SpecSession == InitSession /\ [][NextSession]_vars

\* ------------------------------------------------------------------ Next
Next ==
    \/ Initialize
    \/ Login
    \/ Close
    \/ StartBatch
    \/ CollectBatch
    \/ FinishConcurrent
    \/ SeqStartBatch
    \/ SeqNextBatch
    \/ SeqFinish
    \/ Submit
    \/ Collect
    \/ HFinish
    \/ QuickDone
    \/ \E i \in Ids :
          \/ Acquire(i)
          \/ SeqCall(i)
          \/ GotoSearch(i)
          \/ Fill(i)
          \/ Click(i)
          \/ QueryRow(i)
          \/ RowData(i)
          \/ GotoDetail(i)
          \/ CheckUrl(i)
          \/ Content(i)
          \/ StartWorker(i)
          \/ QuickCall(i)
          \/ HSummary(i)
          \/ HDetail(i)

Spec == Init /\ [][Next]_vars


\* One step of identifier i's Assembler call.
TaskStep(i) ==
    \/ GotoSearch(i) \/ Fill(i) \/ Click(i) \/ QueryRow(i) \/ RowData(i)
    \/ GotoDetail(i) \/ CheckUrl(i) \/ Content(i) \/ HSummary(i) \/ HDetail(i)

Range(f) == {f[j] : j \in 1..Len(f)}

\* The identifiers whose record is in results.
Recorded == {results[j].policy_number : j \in 1..Len(results)}

\* ------------------------------------------------------------------ C1
\* C1: in every reachable state of a batch run with concurrency limit N, at
\* most N Assembler calls have started and not yet finished.
C1_ConcurrencyCap == Cardinality(InFlight) <= limit

\* The cap is reached while another identifier of the batch still waits.
C1_CapReached ==
    /\ Cardinality(InFlight) = limit
    /\ \E k \in Ids : tpc[k] \in {"wait_sem", "queued"}

\* ------------------------------------------------------------------ C2
\* C2: a failed Assembler call (no result, or an exception) neither aborts
\* the run nor makes it skip an identifier: no identifier is attempted
\* twice, the run never ends in an exception once a call has failed, and
\* when the orchestrator returns every identifier of the input was attempted
\* exactly once and its call has completed.
C2_FailureIsolation ==
    /\ \A k \in Ids : calls[k] <= 1
    /\ (\E k \in Ids : tpc[k] = "done" /\ ~ret[k].ok) => mpc # "raised"
    /\ mpc \in {"closing", "returned"} =>
          \A k \in 1..total_rows : calls[k] = 1 /\ tpc[k] = "done"

\* A run of two identifiers has returned: the first failed, the second has
\* its record.
C2_FailedThenRecorded ==
    /\ mpc = "returned"
    /\ total_rows = 2
    /\ ~ret[1].ok /\ calls[1] = 1
    /\ ret[2].ok /\ calls[2] = 1
    /\ 2 \in Recorded

\* ------------------------------------------------------------------ C3
\* C3: under process_data_concurrent the record returned for identifier X
\* is built from the detail page fetched for X (or from no detail page),
\* never from a page another call navigated to.
C3_RecordFromOwnPages ==
    Mode = "concurrent" =>
        \A k \in Ids :
            ret[k].ok =>
                \/ ret[k].detail_kind = "none"
                \/ ret[k].detail_kind = "detail" /\ ret[k].detail_of = ret[k].policy_number

\* ------------------------------------------------------------------ C4
\* C4: an identifier whose summary listing shows no matching row gets no
\* record, no detail fetch and no further search (its call is over, and its
\* searches are the first one and one per attempt that failed before); it
\* is counted as failed and no record for it is ever in results.
C4_NotFoundIsFailure ==
    \A k \in Ids :
        /\ <<"notfound", k>> \in events =>
              /\ tpc[k] = "done"
              /\ ~ret[k].ok
              /\ ndetail[k] = 0
              /\ nsearch[k] = attempt[k] + 1
              /\ k \notin Recorded
              /\ Mode # "hybrid" => k \in Range(failed_policies)
              /\ (caller = "hybrid_main" /\ batch_i >= k /\ sink # "raising") =>
                    failed = Cardinality({j \in 1..batch_i : ~ret[j].ok})
        /\ remote[k] = "norow" =>
              /\ ~ret[k].ok
              /\ ndetail[k] = 0
              /\ k \notin Recorded

\* An identifier the portal has no row for was searched once and is in the
\* failed list of a run that returned.
C4_NotFoundSeen ==
    \E k \in Ids :
        /\ remote[k] = "norow"
        /\ <<"notfound", k>> \in events
        /\ nsearch[k] = 1
        /\ mpc = "returned"
        /\ k \in Range(failed_policies)

\* ------------------------------------------------------------------ C5
\* C5: when the summary listing matched and the detail fetch failed with a
\* transport error, the Assembler still returns a record.
C5_DetailFailureDegrades ==
    \A k \in Ids :
        (<<"detail_failed", k>> \in events /\ tpc[k] = "done") => ret[k].ok

\* ------------------------------------------------------------------ C6
\* C6: without a successful login no identifier is dispatched to the
\* Assembler and no summary or detail fetch is issued.
C6_NoBatchWithoutLogin ==
    ~logged_in => \A k \in Ids : calls[k] = 0 /\ nsearch[k] = 0 /\ ndetail[k] = 0

\* ------------------------------------------------------------------ C7
\* C7: after a successful login the batch run never ends by raising,
\* whatever the length of the identifier list.
C7_NeverRaises == logged_in => mpc # "raised"

\* ------------------------------------------------------------------ C8
\* C8: every fetch in flight ends by itself: the call that waits for it can
\* always take a step, also when the portal never answers.
C8_FetchEnds == \A k \in InFlight : ENABLED TaskStep(k)

LabelRanges ==
    {j \in 1..Len(html) :
        RangeAt(html, j) /\ \E i \in 1..(j - 1) : IsLabel(html[i])}

\* C10: whenever the markup holds the 'Policy Term:' label followed by a
\* MM/DD/YYYY - MM/DD/YYYY range, the extractor returns the first range
\* after the label as effective_date/expiration_date, set by method 1 and
\* by no other method, whether or not the range is plausible and whatever
\* other ranges the document holds.
C10_StrategyAWins ==
    (epc = "returned" /\ LabelRanges # {}) =>
        LET j == CHOOSE a \in LabelRanges : \A b \in LabelRanges : a <= b
        IN  /\ details.has_term
            /\ details.method = 1
            /\ details.effective_date = <<html[j]>>
            /\ details.expiration_date = <<html[j + 2]>>

\* The extractor returned the range after the label although that range
\* fails the validation of method 3 and a range that passes it stands
\* elsewhere in the document.
C10_ImplausibleLabelRangeWon ==
    /\ epc = "returned"
    /\ \E j \in LabelRanges :
          /\ \A b \in LabelRanges : j <= b
          /\ ~Reasonable(<<html[j], html[j + 2]>>, current_year)
          /\ details.effective_date = <<html[j]>>
          /\ details.expiration_date = <<html[j + 2]>>
    /\ \E k \in 1..Len(html) :
          /\ RangeAt(html, k)
          /\ k \notin LabelRanges
          /\ Reasonable(<<html[k], html[k + 2]>>, current_year)

\* ------------------------------------------------------------------ C11
\* The positions of html where a MM/DD/YYYY - MM/DD/YYYY range starts that
\* passes the validation of method 3 in current_year.
ValidRanges ==
    {j \in 1..Len(html) :
        RangeAt(html, j) /\ Reasonable(<<html[j], html[j + 2]>>, current_year)}

\* C11: when methods 1 and 2 set nothing, the extractor returns the first
\* MM/DD/YYYY - MM/DD/YYYY substring of the document, in document order,
\* that parses and passes the validation, by method 3; when no such
\* substring passes, it returns no effective/expiration date.
C11_FirstValidRange ==
    (epc = "returned" /\ LabelRanges = {} /\ ~StrategyB(html).found) =>
        IF ValidRanges = {}
        THEN ~details.has_term
        ELSE LET j == CHOOSE a \in ValidRanges : \A b \in ValidRanges : a <= b
             IN  /\ details.has_term
                 /\ details.method = 3
                 /\ details.effective_date = <<html[j]>>
                 /\ details.expiration_date = <<html[j + 2]>>

\* ------------------------------------------------------------------ C12
\* The day a date names, counted so that later dates have larger numbers.
DayNumber(x) == x.y * 10000 + x.m * 100 + x.d

\* The years of the validation window of current_year.
Window == (current_year - 1)..(current_year + 2)

\* C12: a date pair returned by method 3 has its end date strictly after
\* its start date, and its start year and its end year lie both inside
\* [current_year - 1, current_year + 2].
C12_StrategyCPairIsPlausible ==
    (epc = "returned" /\ details.method = 3) =>
        LET start == details.effective_date[1]
            end == details.expiration_date[1]
        IN  /\ DayNumber(end) > DayNumber(start)
            /\ start.y \in Window
            /\ end.y \in Window

\* Method 3 returned a pair although a range whose years are inside the
\* window and whose end date is not after its start date stands before it.
C12_DegenerateRangeSkipped ==
    /\ epc = "returned"
    /\ details.method = 3
    /\ \E k \in 1..Len(html) :
          /\ RangeAt(html, k)
          /\ html[k].y \in Window
          /\ html[k + 2].y \in Window
          /\ DayNumber(html[k + 2]) <= DayNumber(html[k])
          /\ \E j \in (k + 3)..Len(html) :
                /\ RangeAt(html, j)
                /\ details.effective_date = <<html[j]>>
                /\ details.expiration_date = <<html[j + 2]>>

\* ------------------------------------------------------------------ C13
\* C13: method 2 sets the two dates only when the split of the value
\* element's text on the hyphen gives exactly two parts that are both
\* non-empty after trimming: a result of method 2 never holds an empty
\* effective_date or expiration_date.
C13_StrategyBPartsNonEmpty ==
    (epc = "returned" /\ details.method = 2) =>
        /\ details.effective_date # <<>>
        /\ details.expiration_date # <<>>

\* ------------------------------------------------------------------ C14
\* C14: in the record process_policy returns, effective_date and
\* expiration_date hold the detail value exactly when the extractor
\* returned a non-empty value for the key; otherwise the key is as the
\* summary mapping had it (its value, or absent). cancellation_date is a key
\* of the record exactly when the extractor returned a non-empty one.
C14_DetailOverridesIffNonEmpty ==
    epc = "merged" =>
        /\ \A k \in {"effective_date", "expiration_date"} :
              IF DetailValue(details, k) # <<>>
              THEN k \in DOMAIN record /\ record[k] = DetailValue(details, k)
              ELSE IF k \in DOMAIN search_data
                   THEN k \in DOMAIN record /\ record[k] = search_data[k]
                   ELSE k \notin DOMAIN record
        /\ IF DetailValue(details, "cancellation_date") # <<>>
           THEN /\ "cancellation_date" \in DOMAIN record
                /\ record["cancellation_date"] = DetailValue(details, "cancellation_date")
           ELSE "cancellation_date" \notin DOMAIN record

\* The extractor returned empty strings for the two dates, and the merged
\* record kept the effective date of the summary row.
C14_EmptyDetailKeptSummary ==
    /\ epc = "merged"
    /\ details.has_term
    /\ details.effective_date = <<>>
    /\ search_data["effective_date"] = SummaryDate
    /\ record["effective_date"] = SummaryDate
    /\ "expiration_date" \notin DOMAIN record

\* ------------------------------------------------------------------ C15
\* C15: whatever the extractor returned, the keys policy_number, app_id,
\* status, applicant_company, state, program and total_cost of the
\* assembled record hold the values parsed from the summary row.
C15_SummaryFieldsUntouched ==
    epc \in {"merged", "combined"} =>
        \A k \in SummaryKeys \ {"effective_date"} :
            k \in DOMAIN record /\ record[k] = search_data[k]

\* A record was merged from a full summary row and a detail mapping that
\* set all three dates.
C15_AllDatesMerged ==
    /\ epc = "merged"
    /\ search_data = SummaryOf(9)
    /\ details.has_term
    /\ details.has_cancellation
    /\ record["effective_date"] = details.effective_date
    /\ record["effective_date"] # <<>>
    /\ record["cancellation_date"] = details.cancellation_date
    /\ record["status"] = Text("status")

\* ------------------------------------------------------------------ C16
\* C16: when no method set the term dates, the extractor's mapping has
\* neither effective_date nor expiration_date, the record is emitted all
\* the same, and its dates are those the summary mapping had: the merged
\* record keeps the summary's effective_date and gets no expiration_date,
\* the combined record of the scraper, which reads no date from the row,
\* has both dates empty.
C16_NoTermKeepsSummaryDates ==
    (epc \in {"merged", "combined"} /\ ~details.has_term) =>
        /\ DetailValue(details, "effective_date") = <<>>
        /\ DetailValue(details, "expiration_date") = <<>>
        /\ "policy_number" \in DOMAIN record
        /\ record["policy_number"] = search_data["policy_number"]
        /\ epc = "merged" =>
              /\ "effective_date" \in DOMAIN record
              /\ record["effective_date"] = search_data["effective_date"]
              /\ "expiration_date" \notin DOMAIN record
        /\ epc = "combined" =>
              /\ record["effective_date"] = <<>>
              /\ record["expiration_date"] = <<>>

\* A record was merged from a summary row with an effective date and a
\* detail mapping without term dates, and holds the summary's date.
C16_SummaryDateRetained ==
    /\ epc = "merged"
    /\ ~details.has_term
    /\ search_data["effective_date"] = SummaryDate
    /\ record["effective_date"] = SummaryDate

\* ------------------------------------------------------------------ C17
\* 'Cancellation Date:</dt>', '<dd>' and a date stand at i, i + 1, i + 2.
StrictAt(i) ==
    /\ i + 2 <= Len(html)
    /\ html[i].t = "CDL"
    /\ html[i + 1].t = "DD"
    /\ IsDate(html[i + 2])

\* 'Cancellation Date:</dt>' and '<dd>' stand at i and i + 1, and the text
\* behind them runs up to the '</dd>' at e.
ContainerAt(i, e) ==
    /\ i + 1 < e
    /\ e <= Len(html)
    /\ html[i].t = "CDL"
    /\ html[i + 1].t = "DD"
    /\ html[e].t = "EDD"
    /\ \A x \in (i + 2)..(e - 1) : IsText(html[x])

\* C17: the returned mapping holds cancellation_date exactly when the
\* strict pattern matches somewhere (its date is taken) or, that failing,
\* the text of the first value container behind a 'Cancellation Date:'
\* label holds a date (the first one is taken), whichever method set the
\* term dates and also when none did.
C17_CancellationIndependent ==
    epc = "returned" =>
        IF \E i \in 1..Len(html) : StrictAt(i)
        THEN \E i \in 1..Len(html) :
                /\ StrictAt(i)
                /\ \A j \in 1..(i - 1) : ~StrictAt(j)
                /\ details.has_cancellation
                /\ details.cancellation_date = <<html[i + 2]>>
        ELSE IF \E i, e \in 1..Len(html) : ContainerAt(i, e)
        THEN \E i, e \in 1..Len(html) :
                /\ ContainerAt(i, e)
                /\ \A j \in 1..(i - 1) : \A f \in 1..Len(html) : ~ContainerAt(j, f)
                /\ IF \E x \in (i + 2)..(e - 1) : IsDate(html[x])
                   THEN \E x \in (i + 2)..(e - 1) :
                           /\ IsDate(html[x])
                           /\ \A y \in (i + 2)..(x - 1) : ~IsDate(html[y])
                           /\ details.has_cancellation
                           /\ details.cancellation_date = <<html[x]>>
                   ELSE ~details.has_cancellation
        ELSE ~details.has_cancellation

\* The strict pattern matched nowhere, and the cancellation date is the
\* date inside the text of the value container.
C17_FallbackDateTaken ==
    /\ epc = "returned"
    /\ \A i \in 1..Len(html) : ~StrictAt(i)
    /\ details.has_cancellation
    /\ \E i, e \in 1..Len(html) :
          /\ ContainerAt(i, e)
          /\ \E x \in (i + 3)..(e - 1) : details.cancellation_date = <<html[x]>>

\* ------------------------------------------------------------------ C18
\* C18: the app_id and the column values taken from a summary listing are
\* those of an item row that holds the searched policy number (a column is
\* '' when it was not read), also when the listing has several rows and the
\* row that holds the number is not the first.
C18_ValuesOfMatchingRow ==
    epc \in {"data", "row"} =>
        \E r \in 1..Len(listing) :
            /\ listing[r].item
            /\ listing[r].match
            /\ search_data["app_id"] = (IF listing[r].id THEN Cell(r, 1) ELSE <<>>)
            /\ \A k \in DOMAIN search_data \ {"policy_number", "app_id"} :
                  search_data[k] \in {Cell(r, ColumnOf(k)), <<>>}

\* ------------------------------------------------------------------ C19
\* The place of identifier x in the order of completion.
CompletedAt(x) == CHOOSE j \in 1..Len(done_order) : done_order[j] = x

C20_FailedInInputOrder ==
    \A a, b \in 1..Len(failed_policies) :
        a < b => failed_policies[a] < failed_policies[b]

\* ------------------------------------------------------------------ C22
\* The identifiers of the input whose Assembler call has not started.
Pending == {k \in 1..total_rows : tpc[k] \in {"new", "wait_sem", "queued"}}

\* Identifier i's Assembler call starts.
StartCall(i) == Acquire(i) \/ SeqCall(i) \/ StartWorker(i) \/ QuickCall(i)

\* C22: under process_data_concurrent and process_policies_concurrent,
\* whenever a call is in flight, fewer than N calls are in flight and an
\* identifier is still pending, some pending identifier can start now,
\* without any call in flight having to finish first.
C22_OnlyTheCapDelays ==
    (/\ Mode \in {"concurrent", "hybrid"}
     /\ InFlight # {}
     /\ Cardinality(InFlight) < limit
     /\ Pending # {})
        => \E i \in Pending : ENABLED StartCall(i)

\* ------------------------------------------------------------------ C24
\* C24: the record an Assembler call returns has exactly the ten keys
\* policy_number, app_id, status, applicant_company, state, program,
\* total_cost, effective_date, expiration_date, cancellation_date.
C24_ExactlyTenFields ==
    epc \in {"merged", "combined"} => DOMAIN record = SummaryKeys \cup DateKeys

\* ------------------------------------------------------------------ C21
\* The updates issued for completions, in the order they were issued.
CompletionUpdates == SelectSeq(progress, LAMBDA u : u[1] = "done")

\* The completions the orchestrator has taken note of: the tasks that ran
\* their finally block, the futures the collecting loop has passed, the rows
\* the sequential loop is done with.
Noted ==
    IF Mode = "hybrid" THEN batch_i
    ELSE Cardinality({k \in 1..total_rows : tpc[k] = "done"})

\* C21: with a progress sink, the updates issued for completions are one
\* per completion and count 1, 2, 3, ...: the j-th says completed_count j,
\* there are as many as completions so far, and n when the run of n
\* identifiers has finished.
C21_OneUpdatePerCompletion ==
    (sink # "none" /\ caller # "quick_test_hybrid") =>
        /\ \A j \in 1..Len(CompletionUpdates) : CompletionUpdates[j][2] = j
        /\ Len(CompletionUpdates) = Noted
        /\ mpc \in {"closing", "returned"} => Len(CompletionUpdates) = total_rows

\* ------------------------------------------------------------------ C28
\* C28: in every update issued for a completion, completed_count is
\* success_count + failure_count and total_count is the number of input
\* identifiers.
C28_CountsAddUp ==
    \A j \in 1..Len(CompletionUpdates) :
        /\ CompletionUpdates[j][2] = CompletionUpdates[j][4] + CompletionUpdates[j][5]
        /\ CompletionUpdates[j][3] = total_rows

\* ------------------------------------------------------------------ C29
\* How often x stands in the sequence f.
Occurrences(f, x) == Cardinality({j \in 1..Len(f) : f[j] = x})

\* The identifiers of the records of results, in their order.
RecordedIds == [j \in 1..Len(results) |-> results[j].policy_number]

\* C29: when a batch run has finished, every input identifier has exactly
\* one record in results or stands exactly once in the failed list, never
\* both and never neither; where failures are only counted
\* (process_policies_concurrent), no identifier has two records and
\* successful + failed is the length of the input.
C29_EveryIdentifierAccounted ==
    (mpc \in {"closing", "returned"} /\ caller # "quick_test_hybrid") =>
        IF Mode = "hybrid"
        THEN /\ \A k \in 1..total_rows : Occurrences(RecordedIds, k) <= 1
             /\ Len(results) = successful
             /\ successful + failed = total_rows
        ELSE /\ \A k \in 1..total_rows :
                   Occurrences(RecordedIds, k) + Occurrences(failed_policies, k) = 1
             /\ Len(results) + Len(failed_policies) = total_rows

\* ------------------------------------------------------------------ C25
\* What the portal's markup determines for identifier k: the record built
\* from k's row and k's detail page when the listing has the row, none
\* otherwise (and none from a session that is not logged in).
Expected(k) ==
    IF logged_in /\ remote[k] = "row"
    THEN Rec(policy_numbers[k], policy_numbers[k], "detail", policy_numbers[k])
    ELSE NoRec

\* C25: in a run in which no fetch and no read of a page failed, the value
\* an Assembler call returned for an identifier is the one the identifier
\* and the markup determine, whatever the schedule was.
C25_RecordDeterminedByMarkup ==
    (\A k \in Ids : <<"fault", k>> \notin events) =>
        \A k \in 1..total_rows :
            (tpc[k] = "done" /\ ret[k] # TaskException) => ret[k] = Expected(k)

\* ------------------------------------------------------------------ C27
\* C27: a detail fetch is issued only behind the summary fetch and only for
\* a summary mapping that holds an app_id, i.e. when a matching row with an
\* app_id was found.
C27_DetailOnlyWithAppId ==
    epc = "detail_requested" =>
        /\ search_data # NoMapping
        /\ search_data["app_id"] # <<>>

\* A call of close() is running; at least one call has returned.
InClose == session.pc \in ClosePositions
AfterClose == session.closes >= 1 /\ ~InClose

\* C26: once initialize() has returned, browser and page are both set; when
\* a step of initialize() fails, close() has run before the caller sees the
\* exception: the release of everything acquired so far was called, nothing
\* stays open unless a release itself raised, and the exception is raised.
C26_InitializeSetsOrCleans ==
    /\ session.pc = "initialized" =>
          /\ scraper.browser = "set"
          /\ scraper.page = "set"
          /\ ~session.exc
    /\ session.pc = "init_raised" =>
          /\ session.exc
          /\ session.closes >= 1
          /\ session.open \subseteq session.tried
          /\ session.close_raised = {} => session.open = {}
          /\ scraper.browser = "none"
          /\ scraper.playwright # "set"

\* new_page() failed after the browser was launched: close() released the
\* browser and the driver, and the exception is on its way to the caller.
C26_FailedAfterLaunch ==
    ~(/\ session.pc = "init_raised"
      /\ "browser" \in session.tried
      /\ session.open = {})

C23_ReleasedOnEveryExit ==
    (session.pc \in Exits /\ session.entry \in {"run_scraping_process", "hybrid_login"})
        => session.open \subseteq session.tried

====
